---- MODULE Spec2Model ----
(***************************************************************************)
(* Model of StackdriverDatasource                                          *)
(* (public/app/plugins/datasource/stackdriver/datasource.ts).              *)
(*                                                                         *)
(* One datasource instance with its fields (authenticationType,            *)
(* projectName, metricTypes), the event channel it emits to, and the       *)
(* asynchronous calls made on it.  Every call is a sequence of steps that  *)
(* suspends only at a network await; the transport resolves or rejects     *)
(* each awaited request with a value drawn from a small set.               *)
(*                                                                         *)
(* JavaScript values are tagged records, strings are TLA+ strings, and     *)
(* property access, truthiness, string conversion and JSON.parse are       *)
(* computed as the language computes them.                                 *)
(***************************************************************************)
EXTENDS Integers, Sequences, FiniteSets, TLC

VARIABLES
    authenticationType, \* this.authenticationType
    projectName,        \* this.projectName (a JavaScript value)
    metricTypes,        \* this.metricTypes, the metric-descriptor cache
    appEvents,          \* events emitted through appEvents during the current call
    panelTargets,       \* the target list of the panel that query is called for
    calls,              \* caller -> the call it is making (position, arguments, result)
    ncalls,             \* number of calls started so far
    lastDone,           \* which call was completed before the current one, and how it ended
    firstFetch,         \* <<list>> stored by the first getMetricTypes fetch that succeeded
    mtWrites,           \* number of assignments to this.metricTypes
    pnWrites            \* number of assignments to this.projectName

vars == <<authenticationType, projectName, metricTypes, appEvents, panelTargets, calls,
          ncalls, lastDone, firstFetch, mtWrites, pnWrites>>

-----------------------------------------------------------------------------
(* Bounds *)

MaxCalls == 3        \* calls started in one behaviour
MaxRetriesArg == 2   \* largest maxRetries passed to doRequest directly
MaxTargets == 2      \* longest target list passed to query
NumCallers == 2      \* overlapping callers in the concurrent specification

-----------------------------------------------------------------------------
(* JavaScript values *)

Undefined == [t |-> "undefined"]
Null == [t |-> "null"]
Str(s) == [t |-> "string", v |-> s]
Num(n) == [t |-> "number", v |-> n]
Bool(b) == [t |-> "boolean", v |-> b]
Obj(f) == [t |-> "object", v |-> f]
Arr(s) == [t |-> "array", v |-> s]

EmptyRecord == [x \in {} |-> Undefined]

\* completion of an evaluation: a returned value or a thrown one
Return(v) == [ok |-> TRUE, val |-> v]
Throw(e) == [ok |-> FALSE, val |-> e]

TypeError == Obj([name |-> Str("TypeError")])

Nullish(x) == x.t \in {"undefined", "null"}

\* x ? a : b, x && y, !x
Truthy(x) ==
    CASE x.t = "undefined" -> FALSE
      [] x.t = "null" -> FALSE
      [] x.t = "string" -> x.v # ""
      [] x.t = "number" -> x.v # 0
      [] x.t = "boolean" -> x.v
      [] OTHER -> TRUE

\* x.k for a non-nullish x (x.k on undefined or null throws a TypeError)
Prop(x, k) ==
    IF x.t = "object" /\ k \in DOMAIN x.v THEN x.v[k] ELSE Undefined

RECURSIVE JoinStrings(_)
JoinStrings(ss) ==
    IF Len(ss) = 0 THEN ""
    ELSE IF Len(ss) = 1 THEN ss[1]
    ELSE ss[1] \o "," \o JoinStrings(Tail(ss))

\* the string a value converts to in a concatenation or a template literal
RECURSIVE ToJSString(_)
ToJSString(x) ==
    CASE x.t = "undefined" -> "undefined"
      [] x.t = "null" -> "null"
      [] x.t = "string" -> x.v
      [] x.t = "number" -> ToString(x.v)
      [] x.t = "boolean" -> (IF x.v THEN "true" ELSE "false")
      [] x.t = "array" -> JoinStrings([i \in 1..Len(x.v) |->
                              IF Nullish(x.v[i]) THEN "" ELSE ToJSString(x.v[i])])
      [] OTHER -> "[object Object]"

IsString(x) == x.t = "string"

-----------------------------------------------------------------------------
(* JSON.parse, for texts made of objects, strings without escapes,         *)
(* non-negative integers, null, true and false; any other text is a        *)
(* SyntaxError.                                                            *)

SyntaxError == Obj([name |-> Str("SyntaxError")])

CharAt(s, i) == IF i >= 1 /\ i <= Len(s) THEN SubSeq(s, i, i) ELSE ""
Slice(s, i, j) == IF i >= 1 /\ j <= Len(s) THEN SubSeq(s, i, j) ELSE ""

Digits == <<"0", "1", "2", "3", "4", "5", "6", "7", "8", "9">>
IsDigit(c) == \E d \in 1..10 : Digits[d] = c
DigitValue(c) == (CHOOSE d \in 1..10 : Digits[d] = c) - 1

RECURSIVE SkipWs(_, _)
SkipWs(s, i) == IF CharAt(s, i) = " " THEN SkipWs(s, i + 1) ELSE i

\* index of the next '"' at or after i, 0 when there is none
RECURSIVE FindQuote(_, _)
FindQuote(s, i) ==
    IF i > Len(s) THEN 0
    ELSE IF CharAt(s, i) = "\"" THEN i
    ELSE FindQuote(s, i + 1)

RECURSIVE ParseDigits(_, _, _)
ParseDigits(s, i, acc) ==
    IF IsDigit(CharAt(s, i))
    THEN ParseDigits(s, i + 1, acc * 10 + DigitValue(CharAt(s, i)))
    ELSE [ok |-> TRUE, val |-> Num(acc), pos |-> i]

ParseFail == [ok |-> FALSE, val |-> SyntaxError, pos |-> 0]

RECURSIVE ParseValue(_, _)
RECURSIVE ParseMembers(_, _, _)

\* a value starting at or after position i; pos is the position after it
ParseValue(s, i0) ==
    LET i == SkipWs(s, i0)
        c == CharAt(s, i)
    IN CASE c = "{" ->
              (LET j == SkipWs(s, i + 1)
               IN IF CharAt(s, j) = "}"
                  THEN [ok |-> TRUE, val |-> Obj(EmptyRecord), pos |-> j + 1]
                  ELSE ParseMembers(s, j, EmptyRecord))
         [] c = "\"" ->
              (LET q == FindQuote(s, i + 1)
               IN IF q = 0 THEN ParseFail
                  ELSE [ok |-> TRUE, val |-> Str(SubSeq(s, i + 1, q - 1)), pos |-> q + 1])
         [] IsDigit(c) -> ParseDigits(s, i, 0)
         [] c = "n" /\ Slice(s, i, i + 3) = "null" ->
              [ok |-> TRUE, val |-> Null, pos |-> i + 4]
         [] c = "t" /\ Slice(s, i, i + 3) = "true" ->
              [ok |-> TRUE, val |-> Bool(TRUE), pos |-> i + 4]
         [] c = "f" /\ Slice(s, i, i + 4) = "false" ->
              [ok |-> TRUE, val |-> Bool(FALSE), pos |-> i + 5]
         [] OTHER -> ParseFail

\* members of an object from position i (a key is expected), acc the members so far
ParseMembers(s, i0, acc) ==
    LET i == SkipWs(s, i0)
    IN IF CharAt(s, i) # "\"" THEN ParseFail
       ELSE LET q == FindQuote(s, i + 1)
            IN IF q = 0 THEN ParseFail
               ELSE LET key == SubSeq(s, i + 1, q - 1)
                        colon == SkipWs(s, q + 1)
                    IN IF CharAt(s, colon) # ":" THEN ParseFail
                       ELSE LET v == ParseValue(s, colon + 1)
                            IN IF ~v.ok THEN ParseFail
                               ELSE LET acc2 == (key :> v.val) @@ acc
                                        n == SkipWs(s, v.pos)
                                    IN CASE CharAt(s, n) = "," -> ParseMembers(s, n + 1, acc2)
                                         [] CharAt(s, n) = "}" ->
                                              [ok |-> TRUE, val |-> Obj(acc2), pos |-> n + 1]
                                         [] OTHER -> ParseFail

JSONParse(text) ==
    LET r == ParseValue(text, 1)
    IN IF r.ok /\ SkipWs(text, r.pos) = Len(text) + 1 THEN Return(r.val)
       ELSE Throw(SyntaxError)

-----------------------------------------------------------------------------
(* formatStackdriverError *)

DefaultErrorMessage == "Cannot connect to Stackdriver API"

\* try { res = JSON.parse(error.data.error);
\*       message += res.error.code + '. ' + res.error.message }
\* catch (err) { message += error.data.error }
AppendParsedError(message, raw) ==
    LET res == JSONParse(ToJSString(raw))
    IN IF res.ok /\ ~Nullish(res.val) /\ ~Nullish(Prop(res.val, "error"))
       THEN message \o ToJSString(Prop(Prop(res.val, "error"), "code")) \o ". "
                    \o ToJSString(Prop(Prop(res.val, "error"), "message"))
       ELSE message \o ToJSString(raw)

formatStackdriverError(error) ==
    IF Nullish(error) THEN Throw(TypeError)    \* error.statusText of undefined/null
    ELSE LET statusText == Prop(error, "statusText")
             message == "Stackdriver: " \o
                        (IF Truthy(statusText) THEN ToJSString(statusText) \o ": " ELSE "")
             data == Prop(error, "data")
         IN IF Truthy(data) /\ Truthy(Prop(data, "error"))
            THEN Return(Str(AppendParsedError(message, Prop(data, "error"))))
            ELSE Return(Str(message \o DefaultErrorMessage))

-----------------------------------------------------------------------------
(* Calls *)

IdleCall ==
    [op |-> "none", pc |-> "idle", arg |-> Undefined, url |-> "", retries |-> 0,
     sent |-> <<>>, failed |-> 0, last |-> Return(Undefined),
     status |-> "none", value |-> Undefined,
     mt0 |-> <<>>, after |-> FALSE]

\* a call as it starts: nothing sent, no result yet
NewCall(op, arg) ==
    [IdleCall EXCEPT !.op = op, !.pc = "running", !.arg = arg,
                     !.mt0 = metricTypes, !.after = (firstFetch # <<>>)]

\* the call completes: a completion Return(v) resolves it, Throw(e) rejects it
Finish(c, completion) ==
    [c EXCEPT !.pc = "done",
              !.status = IF completion.ok THEN "returned" ELSE "raised",
              !.value = completion.val]

Summary(c) == [op |-> c.op, status |-> c.status]

NoSummary == [op |-> "none", status |-> "none"]

Callers == DOMAIN calls

CanStart(p) ==
    /\ calls[p].pc \in {"idle", "done"}
    /\ ncalls < MaxCalls

\* bookkeeping common to every call start; the listener of the event channel
\* has consumed the events of earlier calls
Begin(p) ==
    /\ ncalls' = ncalls + 1
    /\ lastDone' = IF calls[p].pc = "done" THEN Summary(calls[p]) ELSE lastDone
    /\ appEvents' = <<>>

-----------------------------------------------------------------------------
(* Error values a caller or the transport can produce *)

ErrorTexts ==
    { "{\"error\":{\"code\":404,\"message\":\"missing\"}}",
      "{\"error\": {\"code\": 403}}",
      "{\"error\":{}}",
      "{\"error\":null}",
      "{}",
      "null",
      "7",
      "\"text\"",
      "{\"error\":{\"code\":404",
      "quota exceeded" }

DataValues ==
    {Undefined, Null, Str("denied"), Obj(EmptyRecord), Obj([error |-> Undefined]),
     Obj([error |-> Str("")]), Obj([error |-> Num(7)]),
     Obj([error |-> Obj([code |-> Num(500), message |-> Str("backend")])])}
    \cup {Obj([error |-> Str(x)]) : x \in ErrorTexts}

StatusTexts == {Undefined, Str(""), Str("Not Found")}

ErrorValues ==
    {Undefined, Null, Str("timeout"), Num(0), Obj(EmptyRecord), TypeError}
    \cup {Obj([statusText |-> st, data |-> d]) : st \in StatusTexts, d \in DataValues}
    \cup {Obj([data |-> d]) : d \in DataValues}

\* formatStackdriverError(error), called directly
FormatError(p, error) ==
    /\ CanStart(p)
    /\ Begin(p)
    /\ calls' = [calls EXCEPT ![p] =
                    Finish(NewCall("formatStackdriverError", error),
                           formatStackdriverError(error))]
    /\ UNCHANGED <<authenticationType, projectName, metricTypes, panelTargets,
                   firstFetch, mtWrites, pnWrites>>

-----------------------------------------------------------------------------
(* Construction *)

AuthenticationTypes == {"", "jwt", "gce"}
ConfiguredProjects == {Undefined, Str("proj-cfg")}

\* constructor(instanceSettings, ...): jsonData drawn from the given settings,
\* for the given number of callers
Construct(n, authenticationTypes, defaultProjects) ==
    /\ authenticationType \in {IF at # "" THEN at ELSE "jwt" : at \in authenticationTypes}
    /\ projectName \in {IF Truthy(dp) THEN dp ELSE Str("") : dp \in defaultProjects}
    /\ metricTypes = <<>>
    /\ appEvents = <<>>
    /\ calls = [p \in 1..n |-> IdleCall]
    /\ ncalls = 0
    /\ lastDone = NoSummary
    /\ firstFetch = <<>>
    /\ mtWrites = 0
    /\ pnWrites = 0

-----------------------------------------------------------------------------
(* The transport: what backendSrv.datasourceRequest can resolve or reject with *)

ThisUrl == "/api/datasources/proxy/1"    \* this.url = instanceSettings.url
BaseUrl == "/stackdriver/"               \* this.baseUrl
DefaultMaxRetries == 1                   \* doRequest(url, maxRetries = 1)

CpuDescriptor ==
    Obj([type |-> Str("compute.googleapis.com/instance/cpu/usage_time"),
         displayName |-> Str("CPU usage")])
LogDescriptor == Obj([type |-> Str("logging.googleapis.com/log_entry_count")])
UntypedDescriptor == Obj([displayName |-> Str("untyped")])

DescriptorLists ==
    {<<>>, <<CpuDescriptor>>, <<LogDescriptor, CpuDescriptor>>, <<CpuDescriptor, UntypedDescriptor>>}

GetResponses ==
    {Obj([status |-> Num(200), data |-> Obj([metricDescriptors |-> Arr(l)])]) :
        l \in DescriptorLists}
    \cup {Obj([status |-> Num(200), data |-> Obj(EmptyRecord)]),
          Obj([status |-> Num(403), statusText |-> Str("Forbidden")]),
          Obj([status |-> Num(500)])}

ProjectMeta(meta) ==
    Obj([data |-> Obj([results |-> Obj([ensureDefaultProjectQuery |-> Obj([meta |-> meta])])])])

PostResponses ==
    {ProjectMeta(Obj([defaultProject |-> Str("proj-a")])),
     ProjectMeta(Obj([defaultProject |-> Str("proj-b")])),
     ProjectMeta(Obj(EmptyRecord)),
     Obj([data |-> Obj(EmptyRecord)])}

TransportErrors ==
    {Undefined,
     Str("timeout"),
     Obj(EmptyRecord),
     Obj([statusText |-> Str("Not Found"),
          data |-> Obj([error |-> Str("{\"error\":{\"code\":404,\"message\":\"missing\"}}")])]),
     Obj([data |-> Obj([error |-> Obj([code |-> Num(500), message |-> Str("backend")])])])}

Projects == {Str("proj-a"), Str("proj-b")}

\* x.k1.k2...: a TypeError as soon as a property of undefined or null is read
RECURSIVE PathGet(_, _)
PathGet(x, path) ==
    IF Len(path) = 0 THEN Return(x)
    ELSE IF Nullish(x) THEN Throw(TypeError)
    ELSE PathGet(Prop(x, Head(path)), Tail(path))

-----------------------------------------------------------------------------
(* doRequest *)

\* this.backendSrv.datasourceRequest({url: this.url + url, method: 'GET'})
SendGet(c, url, maxRetries) ==
    [c EXCEPT !.pc = "await_get", !.url = url, !.retries = maxRetries,
              !.sent = Append(@, [method |-> "GET", url |-> ThisUrl \o url])]

\* the retry test off by one: one attempt too many
ShouldRetry_OffByOne(maxRetries) == maxRetries >= 0

\* if (maxRetries > 0)
ShouldRetry(maxRetries) == maxRetries > 0

\* .catch(error => this.doRequest(url, maxRetries - 1)), for every caller of doRequest
GetRejectsRetry(p, error) ==
    /\ calls[p].pc = "await_get"
    /\ ShouldRetry(calls[p].retries)
    /\ calls' = [calls EXCEPT ![p] =
                    SendGet([calls[p] EXCEPT !.failed = @ + 1, !.last = Throw(error)],
                            calls[p].url, calls[p].retries - 1)]
    /\ UNCHANGED <<authenticationType, projectName, metricTypes, appEvents, panelTargets,
                   ncalls, lastDone, firstFetch, mtWrites, pnWrites>>

\* doRequest(url, maxRetries), called directly
DoRequest(p, url, maxRetries) ==
    /\ CanStart(p)
    /\ Begin(p)
    /\ calls' = [calls EXCEPT ![p] =
                    SendGet(NewCall("doRequest", Num(maxRetries)), url, maxRetries)]
    /\ UNCHANGED <<authenticationType, projectName, metricTypes, panelTargets,
                   firstFetch, mtWrites, pnWrites>>

DoRequestResolves(p, response) ==
    /\ calls[p].op = "doRequest"
    /\ calls[p].pc = "await_get"
    /\ calls' = [calls EXCEPT ![p] =
                    Finish([calls[p] EXCEPT !.last = Return(response)], Return(response))]
    /\ UNCHANGED <<authenticationType, projectName, metricTypes, appEvents, panelTargets,
                   ncalls, lastDone, firstFetch, mtWrites, pnWrites>>

\* throw error
DoRequestFails(p, error) ==
    /\ calls[p].op = "doRequest"
    /\ calls[p].pc = "await_get"
    /\ ~ShouldRetry(calls[p].retries)
    /\ calls' = [calls EXCEPT ![p] =
                    Finish([calls[p] EXCEPT !.failed = @ + 1, !.last = Throw(error)],
                           Throw(error))]
    /\ UNCHANGED <<authenticationType, projectName, metricTypes, appEvents, panelTargets,
                   ncalls, lastDone, firstFetch, mtWrites, pnWrites>>

-----------------------------------------------------------------------------
(* getDefaultProject *)

\* the negation of the project test lost: a known project is resolved again
NeedsProjectResolution_Negated(auth, project) == auth = "gce" \/ Truthy(project)

\* if (this.authenticationType === 'gce' || !this.projectName)
NeedsProjectResolution(auth, project) == auth = "gce" \/ ~Truthy(project)

SendPost(c) ==
    [c EXCEPT !.pc = "await_post",
              !.sent = Append(@, [method |-> "POST", url |-> "/api/tsdb/query"])]

\* const { data } = await ...; data.results.ensureDefaultProjectQuery.meta.defaultProject
EnsureProjectResult(response) ==
    PathGet(response, <<"data", "results", "ensureDefaultProjectQuery", "meta", "defaultProject">>)

\* catch (error) { throw this.formatStackdriverError(error) }
GetDefaultProjectCatch(error) == Throw(formatStackdriverError(error).val)

GetDefaultProject(p) ==
    /\ CanStart(p)
    /\ Begin(p)
    /\ calls' = [calls EXCEPT ![p] =
                    IF NeedsProjectResolution(authenticationType, projectName)
                    THEN SendPost(NewCall("getDefaultProject", Undefined))
                    ELSE Finish(NewCall("getDefaultProject", Undefined), Return(projectName))]
    /\ UNCHANGED <<authenticationType, projectName, metricTypes, panelTargets,
                   firstFetch, mtWrites, pnWrites>>

GetDefaultProjectResolves(p, response) ==
    /\ calls[p].op = "getDefaultProject"
    /\ calls[p].pc = "await_post"
    /\ LET r == EnsureProjectResult(response)
           c == [calls[p] EXCEPT !.last = Return(response)]
       IN IF r.ok
          THEN /\ projectName' = r.val
               /\ pnWrites' = pnWrites + 1
               /\ calls' = [calls EXCEPT ![p] = Finish(c, Return(r.val))]
          ELSE /\ calls' = [calls EXCEPT ![p] = Finish(c, GetDefaultProjectCatch(r.val))]
               /\ UNCHANGED <<projectName, pnWrites>>
    /\ UNCHANGED <<authenticationType, metricTypes, appEvents, panelTargets, ncalls,
                   lastDone, firstFetch, mtWrites>>

GetDefaultProjectRejects(p, error) ==
    /\ calls[p].op = "getDefaultProject"
    /\ calls[p].pc = "await_post"
    /\ calls' = [calls EXCEPT ![p] =
                    Finish([calls[p] EXCEPT !.failed = @ + 1, !.last = Throw(error)],
                           GetDefaultProjectCatch(error))]
    /\ UNCHANGED <<authenticationType, projectName, metricTypes, appEvents, panelTargets,
                   ncalls, lastDone, firstFetch, mtWrites, pnWrites>>

-----------------------------------------------------------------------------
(* getMetricTypes *)

\* const [first] = s.split(sep): the part of s before the first sep
RECURSIVE PrefixBefore(_, _, _)
PrefixBefore(s, sep, i) ==
    IF i > Len(s) THEN s
    ELSE IF CharAt(s, i) = sep THEN SubSeq(s, 1, i - 1)
    ELSE PrefixBefore(s, sep, i + 1)

SplitFirst(s, sep) == PrefixBefore(s, sep, 1)

\* the body of data.metricDescriptors.map(m => ...)
DescribeMetric(m) ==
    IF Nullish(m) \/ ~IsString(Prop(m, "type")) THEN Throw(TypeError)
    ELSE LET type == Prop(m, "type")
             service == SplitFirst(type.v, "/")
             serviceShortName == SplitFirst(service, ".")
             fields == IF m.t = "object" THEN m.v ELSE EmptyRecord
         IN Return(Obj([service |-> Str(service),
                        serviceShortName |-> Str(serviceShortName),
                        displayName |-> IF Truthy(Prop(m, "displayName"))
                                        THEN Prop(m, "displayName") ELSE type]
                       @@ fields))

RECURSIVE MapDescriptors(_)
MapDescriptors(ms) ==
    IF Len(ms) = 0 THEN Return(<<>>)
    ELSE LET first == DescribeMetric(Head(ms))
         IN IF ~first.ok THEN first
            ELSE LET rest == MapDescriptors(Tail(ms))
                 IN IF ~rest.ok THEN rest ELSE Return(<<first.val>> \o rest.val)

\* const { data } = response; data.metricDescriptors.map(...)
ProcessDescriptors(response) ==
    LET d == PathGet(response, <<"data", "metricDescriptors">>)
    IN IF ~d.ok THEN d
       ELSE IF d.val.t # "array" THEN Throw(TypeError)
       ELSE MapDescriptors(d.val.v)

\* the cache test dropped: every call fetches
CacheIsEmpty_Always(cache) == TRUE

\* the cache test off by one: a cache of one descriptor counts as empty
CacheIsEmpty_OffByOne(cache) == Len(cache) <= 1

\* if (this.metricTypes.length === 0)
CacheIsEmpty(cache) == Len(cache) = 0

MetricsApiPath(project) == "v3/projects/" \o ToJSString(project) \o "/metricDescriptors"

GetMetricTypes(p, project) ==
    /\ CanStart(p)
    /\ Begin(p)
    /\ calls' = [calls EXCEPT ![p] =
                    IF CacheIsEmpty(metricTypes)
                    THEN SendGet(NewCall("getMetricTypes", project),
                                 BaseUrl \o MetricsApiPath(project), DefaultMaxRetries)
                    ELSE Finish(NewCall("getMetricTypes", project), Return(Arr(metricTypes)))]
    /\ UNCHANGED <<authenticationType, projectName, metricTypes, panelTargets,
                   firstFetch, mtWrites, pnWrites>>

\* catch (error) { appEvents.emit('ds-request-error', this.formatStackdriverError(error));
\*                 return []; }
GetMetricTypesCatch(p, c, error) ==
    LET message == formatStackdriverError(error)
    IN /\ IF message.ok
          THEN /\ appEvents' = Append(appEvents, [name |-> "ds-request-error",
                                                  payload |-> message.val])
               /\ calls' = [calls EXCEPT ![p] = Finish(c, Return(Arr(<<>>)))]
          ELSE /\ appEvents' = appEvents
               /\ calls' = [calls EXCEPT ![p] = Finish(c, Throw(message.val))]
       /\ UNCHANGED <<metricTypes, firstFetch, mtWrites>>

GetMetricTypesResolves(p, response) ==
    /\ calls[p].op = "getMetricTypes"
    /\ calls[p].pc = "await_get"
    /\ LET r == ProcessDescriptors(response)
           c == [calls[p] EXCEPT !.last = Return(response)]
       IN IF r.ok
          THEN /\ metricTypes' = r.val
               /\ mtWrites' = mtWrites + 1
               /\ firstFetch' = IF firstFetch = <<>> THEN <<r.val>> ELSE firstFetch
               /\ calls' = [calls EXCEPT ![p] = Finish(c, Return(Arr(r.val)))]
               /\ appEvents' = appEvents
          ELSE GetMetricTypesCatch(p, c, r.val)
    /\ UNCHANGED <<authenticationType, projectName, panelTargets, ncalls, lastDone, pnWrites>>

GetMetricTypesFails(p, error) ==
    /\ calls[p].op = "getMetricTypes"
    /\ calls[p].pc = "await_get"
    /\ ~ShouldRetry(calls[p].retries)
    /\ GetMetricTypesCatch(p, [calls[p] EXCEPT !.failed = @ + 1, !.last = Throw(error)], error)
    /\ UNCHANGED <<authenticationType, projectName, panelTargets, ncalls, lastDone, pnWrites>>

-----------------------------------------------------------------------------
(* testDatasource *)

TestResult(status, message) == Obj([status |-> Str(status), message |-> message])

\* the try block after doRequest has returned
TestResponseResult(response) ==
    IF Prop(response, "status") = Num(200)
    THEN TestResult("success", Str("Successfully queried the Stackdriver API."))
    ELSE TestResult("error", IF Truthy(Prop(response, "statusText"))
                             THEN Prop(response, "statusText")
                             ELSE Str(DefaultErrorMessage))

\* the catch block without its string test: the error itself becomes the message
TestCatch_RawMessage(error) == TestResult("error", error)

\* catch (error) { ... } finally { return { status, message } }
TestCatch(error) ==
    IF IsString(error) THEN TestResult("error", error)
    ELSE IF Nullish(error)
    THEN TestResult("error", Str("Stackdriver: "))   \* error.statusText throws, finally returns
    ELSE LET message == "Stackdriver: " \o
                        (IF Truthy(Prop(error, "statusText"))
                         THEN ToJSString(Prop(error, "statusText"))
                         ELSE DefaultErrorMessage)
             detail == Prop(Prop(error, "data"), "error")
         IN IF Truthy(Prop(error, "data")) /\ Truthy(detail) /\ Truthy(Prop(detail, "code"))
            THEN TestResult("error", Str(message \o ": " \o ToJSString(Prop(detail, "code"))
                                         \o ". " \o ToJSString(Prop(detail, "message"))))
            ELSE TestResult("error", Str(message))

TestDatasource(p) ==
    /\ CanStart(p)
    /\ Begin(p)
    /\ calls' = [calls EXCEPT ![p] =
                    IF NeedsProjectResolution(authenticationType, projectName)
                    THEN SendPost(NewCall("testDatasource", Undefined))
                    ELSE SendGet(NewCall("testDatasource", Undefined),
                                 BaseUrl \o MetricsApiPath(projectName), DefaultMaxRetries)]
    /\ UNCHANGED <<authenticationType, projectName, metricTypes, panelTargets,
                   firstFetch, mtWrites, pnWrites>>

\* getDefaultProject returns inside testDatasource
TestProjectResolves(p, response) ==
    /\ calls[p].op = "testDatasource"
    /\ calls[p].pc = "await_post"
    /\ LET r == EnsureProjectResult(response)
           c == [calls[p] EXCEPT !.last = Return(response)]
       IN IF r.ok
          THEN /\ projectName' = r.val
               /\ pnWrites' = pnWrites + 1
               /\ calls' = [calls EXCEPT ![p] =
                               SendGet(c, BaseUrl \o MetricsApiPath(r.val), DefaultMaxRetries)]
          ELSE /\ calls' = [calls EXCEPT ![p] =
                               Finish(c, Return(TestCatch(GetDefaultProjectCatch(r.val).val)))]
               /\ UNCHANGED <<projectName, pnWrites>>
    /\ UNCHANGED <<authenticationType, metricTypes, appEvents, panelTargets, ncalls,
                   lastDone, firstFetch, mtWrites>>

TestProjectRejects(p, error) ==
    /\ calls[p].op = "testDatasource"
    /\ calls[p].pc = "await_post"
    /\ calls' = [calls EXCEPT ![p] =
                    Finish([calls[p] EXCEPT !.failed = @ + 1, !.last = Throw(error)],
                           Return(TestCatch(GetDefaultProjectCatch(error).val)))]
    /\ UNCHANGED <<authenticationType, projectName, metricTypes, appEvents, panelTargets,
                   ncalls, lastDone, firstFetch, mtWrites, pnWrites>>

TestGetResolves(p, response) ==
    /\ calls[p].op = "testDatasource"
    /\ calls[p].pc = "await_get"
    /\ calls' = [calls EXCEPT ![p] =
                    Finish([calls[p] EXCEPT !.last = Return(response)],
                           Return(IF Nullish(response) THEN TestCatch(TypeError)
                                  ELSE TestResponseResult(response)))]
    /\ UNCHANGED <<authenticationType, projectName, metricTypes, appEvents, panelTargets,
                   ncalls, lastDone, firstFetch, mtWrites, pnWrites>>

TestGetFails(p, error) ==
    /\ calls[p].op = "testDatasource"
    /\ calls[p].pc = "await_get"
    /\ ~ShouldRetry(calls[p].retries)
    /\ calls' = [calls EXCEPT ![p] =
                    Finish([calls[p] EXCEPT !.failed = @ + 1, !.last = Throw(error)],
                           Return(TestCatch(error)))]
    /\ UNCHANGED <<authenticationType, projectName, metricTypes, appEvents, panelTargets,
                   ncalls, lastDone, firstFetch, mtWrites, pnWrites>>

-----------------------------------------------------------------------------
(* getTimeSeries and query *)

DatasourceId == 1    \* this.id = instanceSettings.id
IntervalMs == 1000   \* options.intervalMs

ScopedVars ==
    [metric |-> "compute.googleapis.com/instance/cpu/usage_time",
     labels |-> "resource.label.zone,metric.label.instance_name"]

\* templateSrv.replace(text, scopedVars, format): a text that names a scoped
\* variable is replaced by the variable's value, any other text is kept
templateSrv_replace(text, scopedVars) ==
    IF ~IsString(text) THEN text
    ELSE IF \E name \in DOMAIN scopedVars : text.v = "$" \o name
    THEN Str(scopedVars[CHOOSE name \in DOMAIN scopedVars : text.v = "$" \o name])
    ELSE text

\* s.split(sep)
RECURSIVE Split(_, _)
Split(s, sep) ==
    LET first == SplitFirst(s, sep)
    IN IF Len(first) = Len(s) THEN <<s>>
       ELSE <<first>> \o Split(SubSeq(s, Len(first) + 2, Len(s)), sep)

RECURSIVE interpolateGroupBys(_, _)
interpolateGroupBys(groupBys, scopedVars) ==
    IF Len(groupBys) = 0 THEN <<>>
    ELSE Split(templateSrv_replace(Str(Head(groupBys)), scopedVars).v, ",")
         \o interpolateGroupBys(Tail(groupBys), scopedVars)

\* the table of constants.ts: Stackdriver unit name -> panel unit
stackdriverUnitMappings == [bytes |-> "decbytes", seconds |-> "s"]

\* the filter without its hide test
IsQueried_IgnoresHide(target) == Truthy(target.metricType)

\* the filter without its metricType test
IsQueried_IgnoresMetricType(target) == ~Truthy(target.hide)

\* .filter(target => !target.hide && target.metricType)
IsQueried(target) == ~Truthy(target.hide) /\ Truthy(target.metricType)

\* .map(t => ({...}))
QueryDescriptor(t) ==
    [refId |-> t.refId,
     intervalMs |-> IntervalMs,
     datasourceId |-> DatasourceId,
     metricType |-> templateSrv_replace(t.metricType, ScopedVars),
     primaryAggregation |->
         templateSrv_replace(IF Truthy(t.crossSeriesReducer) THEN t.crossSeriesReducer
                             ELSE Str("REDUCE_MEAN"), ScopedVars),
     groupBys |-> interpolateGroupBys(t.groupBys, ScopedVars),
     view |-> IF Truthy(t.view) THEN t.view ELSE Str("FULL"),
     type |-> "timeSeriesQuery"]

RECURSIVE BuildQueries(_)
BuildQueries(targets) ==
    IF Len(targets) = 0 THEN <<>>
    ELSE (IF IsQueried(Head(targets)) THEN <<QueryDescriptor(Head(targets))>> ELSE <<>>)
         \o BuildQueries(Tail(targets))

\* the unit of the first target, without the test that all targets share it
resolvePanelUnitFromTargets_FirstOnly(targets) ==
    IF Len(targets) > 0 /\ ToJSString(targets[1].unit) \in DOMAIN stackdriverUnitMappings
    THEN Str(stackdriverUnitMappings[ToJSString(targets[1].unit)])
    ELSE Undefined

resolvePanelUnitFromTargets(targets) ==
    IF Len(targets) > 0 /\ \A i \in 1..Len(targets) : targets[i].unit = targets[1].unit
    THEN IF ToJSString(targets[1].unit) \in DOMAIN stackdriverUnitMappings
         THEN Str(stackdriverUnitMappings[ToJSString(targets[1].unit)])
         ELSE Undefined
    ELSE Undefined

\* an object whose keys keep their insertion order
OrderedObj(keys, f) == [t |-> "object", v |-> f, keys |-> keys]

\* Object.values(x)
ObjectValues(x) ==
    IF x.t = "array" THEN x.v
    ELSE IF x.t = "object" /\ "keys" \in DOMAIN x THEN [i \in 1..Len(x.keys) |-> x.v[x.keys[i]]]
    ELSE <<>>

\* queryRes.series.forEach(series => result.push(timeSerie))
SeriesOf(queryRes, unit) ==
    LET series == Prop(queryRes, "series").v
    IN [i \in 1..Len(series) |->
          LET timeSerie == [target |-> Prop(series[i], "name"),
                            datapoints |-> Prop(series[i], "points"),
                            refId |-> Prop(queryRes, "refId"),
                            meta |-> Prop(queryRes, "meta")]
          IN IF Truthy(unit) THEN Obj([unit |-> unit] @@ timeSerie) ELSE Obj(timeSerie)]

RECURSIVE CollectSeries(_, _)
CollectSeries(queryResults, targets) ==
    IF Len(queryResults) = 0 THEN <<>>
    ELSE (IF ~Truthy(Prop(Head(queryResults), "series")) THEN <<>>
          ELSE SeriesOf(Head(queryResults), resolvePanelUnitFromTargets(targets)))
         \o CollectSeries(Tail(queryResults), targets)

\* the body of query after getTimeSeries has returned data
NormalizeResponse(data, targets) ==
    IF Nullish(data) THEN Throw(TypeError)
    ELSE IF Truthy(Prop(data, "results"))
    THEN Return(Obj([data |-> Arr(CollectSeries(ObjectValues(Prop(data, "results")), targets))]))
    ELSE Return(Obj([data |-> Arr(<<>>)]))

SendQuery(c, queries) ==
    [c EXCEPT !.pc = "await_query",
              !.sent = Append(@, [method |-> "POST", url |-> "/api/tsdb/query",
                                  queries |-> queries])]

\* query(options)
Query(p, targets) ==
    /\ CanStart(p)
    /\ Begin(p)
    /\ LET queries == BuildQueries(targets)
           c == NewCall("query", targets)
       IN calls' = [calls EXCEPT ![p] =
                       IF Len(queries) > 0 THEN SendQuery(c, queries)
                       ELSE Finish(c, NormalizeResponse(Obj([results |-> Arr(<<>>)]), targets))]
    /\ UNCHANGED <<authenticationType, projectName, metricTypes, panelTargets,
                   firstFetch, mtWrites, pnWrites>>

QueryResolves(p, response) ==
    /\ calls[p].op = "query"
    /\ calls[p].pc = "await_query"
    /\ calls' = [calls EXCEPT ![p] =
                    Finish([calls[p] EXCEPT !.last = Return(response)],
                           NormalizeResponse(Prop(response, "data"), calls[p].arg))]
    /\ UNCHANGED <<authenticationType, projectName, metricTypes, appEvents, panelTargets,
                   ncalls, lastDone, firstFetch, mtWrites, pnWrites>>

QueryRejects(p, error) ==
    /\ calls[p].op = "query"
    /\ calls[p].pc = "await_query"
    /\ calls' = [calls EXCEPT ![p] =
                    Finish([calls[p] EXCEPT !.failed = @ + 1, !.last = Throw(error)],
                           Throw(error))]
    /\ UNCHANGED <<authenticationType, projectName, metricTypes, appEvents, panelTargets,
                   ncalls, lastDone, firstFetch, mtWrites, pnWrites>>

\* the batch the caller is waiting on
AwaitedQueries(p) ==
    IF calls[p].pc = "await_query" THEN calls[p].sent[1].queries ELSE <<>>

(* Inputs of query *)

RefIds == <<"A", "B", "C", "D", "E", "F">>

TargetShapes ==
    [hide : {Bool(FALSE), Bool(TRUE)},
     metricType : {Str(""), Str("$metric")},
     unit : {Undefined, Str("bytes"), Str("seconds"), Str("furlongs")}]

Target(shape, refId) ==
    [refId |-> refId, hide |-> shape.hide, metricType |-> shape.metricType,
     unit |-> shape.unit, crossSeriesReducer |-> Undefined, view |-> Undefined,
     groupBys |-> <<"$labels", "metric.type">>]

TargetLists ==
    UNION {{[i \in 1..n |-> Target(shapes[i], RefIds[i])] : shapes \in [1..n -> TargetShapes]} :
           n \in 0..MaxTargets}

Point(value, ms) == Arr(<<Num(value), Num(ms)>>)
SeriesA == Obj([name |-> Str("series-a"), points |-> Arr(<<Point(1, 1000), Point(2, 2000)>>)])
SeriesB == Obj([name |-> Str("series-b"), points |-> Arr(<<>>)])

\* what the backend can return for one query of the batch
QueryResults(refId) ==
    {Obj([refId |-> Str(refId), meta |-> Obj([defaultProject |-> Str("proj-a")])]),
     Obj([refId |-> Str(refId), series |-> Arr(<<SeriesA>>)]),
     Obj([refId |-> Str(refId), series |-> Arr(<<SeriesB, SeriesA>>), meta |-> Obj(EmptyRecord)])}

\* what the transport can resolve a batch of queries with
QueryResponses(queries) ==
    LET keys == [i \in 1..Len(queries) |-> queries[i].refId]
    IN {Obj([data |-> OrderedObj(<<"results">>, [results |-> OrderedObj(keys, f)])]) :
           f \in {g \in [{keys[i] : i \in 1..Len(keys)} -> UNION {QueryResults(keys[i]) : i \in 1..Len(keys)}] :
                    \A k \in DOMAIN g : g[k] \in QueryResults(k)}}
       \cup {Obj([data |-> Obj(EmptyRecord)]), Obj(EmptyRecord)}

-----------------------------------------------------------------------------
(* Specifications *)

Init ==
    /\ Construct(1, AuthenticationTypes, ConfiguredProjects)
    /\ panelTargets = <<>>

RequestUrls == {BaseUrl \o MetricsApiPath(Str("proj-a"))}

\* calls made one after another on one instance, each awaited before the next
Next ==
    \E p \in Callers :
        \/ GetDefaultProject(p)
        \/ \E project \in Projects : GetMetricTypes(p, project)
        \/ TestDatasource(p)
        \/ \E url \in RequestUrls, maxRetries \in 0..MaxRetriesArg : DoRequest(p, url, maxRetries)
        \/ \E response \in PostResponses :
              \/ GetDefaultProjectResolves(p, response)
              \/ TestProjectResolves(p, response)
        \/ \E response \in GetResponses :
              \/ DoRequestResolves(p, response)
              \/ GetMetricTypesResolves(p, response)
              \/ TestGetResolves(p, response)
        \/ \E error \in TransportErrors :
              \/ GetDefaultProjectRejects(p, error)
              \/ TestProjectRejects(p, error)
              \/ GetRejectsRetry(p, error)
              \/ DoRequestFails(p, error)
              \/ GetMetricTypesFails(p, error)
              \/ TestGetFails(p, error)

Spec == Init /\ [][Next]_vars

\* transport outcomes drawn on while calls overlap
ConcPostResponses ==
    {ProjectMeta(Obj([defaultProject |-> Str("proj-a")])),
     ProjectMeta(Obj(EmptyRecord))}
ConcGetResponses ==
    {Obj([status |-> Num(200), data |-> Obj([metricDescriptors |-> Arr(l)])]) :
        l \in {<<>>, <<CpuDescriptor>>}}
ConcErrors == {Obj(EmptyRecord)}

\* getDefaultProject and getMetricTypes called by callers that do not wait for
\* one another: a call suspended at its network await lets the others run
NextConc ==
    \E p \in Callers :
        \/ GetDefaultProject(p)
        \/ \E project \in {Str("proj-a")} : GetMetricTypes(p, project)
        \/ \E response \in ConcPostResponses : GetDefaultProjectResolves(p, response)
        \/ \E response \in ConcGetResponses : GetMetricTypesResolves(p, response)
        \/ \E error \in ConcErrors :
              \/ GetDefaultProjectRejects(p, error)
              \/ GetRejectsRetry(p, error)
              \/ GetMetricTypesFails(p, error)

InitConc ==
    /\ Construct(NumCallers, AuthenticationTypes, ConfiguredProjects)
    /\ panelTargets = <<>>

SpecConc == InitConc /\ [][NextConc]_vars

\* query called for a panel, once per refresh
NextQuery ==
    \E p \in Callers :
        \/ Query(p, panelTargets)
        \/ \E response \in QueryResponses(AwaitedQueries(p)) : QueryResolves(p, response)
        \/ \E error \in TransportErrors : QueryRejects(p, error)

InitQuery ==
    /\ Construct(1, {"jwt"}, {Str("proj-cfg")})
    /\ panelTargets \in TargetLists

SpecQuery == InitQuery /\ [][NextQuery]_vars

NextFormat == \E p \in Callers : \E error \in ErrorValues : FormatError(p, error)

SpecFormat == Init /\ [][NextFormat]_vars

-----------------------------------------------------------------------------
(* Properties *)

IsCall(p, op) == calls[p].op = op
IsDone(p, op) == calls[p].op = op /\ calls[p].pc = "done"
Returned(p) == calls[p].pc = "done" /\ calls[p].status = "returned"
Raised(p) == calls[p].pc = "done" /\ calls[p].status = "raised"

\* the step in which caller p, having completed a successful getDefaultProject
\* call, starts its next getDefaultProject call
NextGetDefaultProject(p) ==
    /\ IsDone(p, "getDefaultProject") /\ Returned(p)
    /\ ncalls' = ncalls + 1
    /\ calls'[p].op = "getDefaultProject"

C2_DoRequestRetries ==
    \A p \in Callers :
        IsCall(p, "doRequest")
        => LET c == calls[p]
               maxRetries == c.arg.v
           IN /\ Len(c.sent) >= 1 /\ Len(c.sent) <= maxRetries + 1
              /\ \A i \in 1..Len(c.sent) :
                    c.sent[i].method = "GET" /\ c.sent[i].url = c.sent[1].url
              /\ c.pc = "await_get" => c.failed = Len(c.sent) - 1
              /\ Returned(p) => /\ c.failed = Len(c.sent) - 1
                                /\ c.last.ok /\ c.value = c.last.val
              /\ Raised(p) => /\ Len(c.sent) = maxRetries + 1
                              /\ c.failed = maxRetries + 1
                              /\ ~c.last.ok /\ c.value = c.last.val
              /\ c.pc \in {"await_get", "done"}

C2_Witness ==
    \E p \in Callers :
        /\ IsDone(p, "doRequest") /\ Raised(p)
        /\ calls[p].arg = Num(DefaultMaxRetries)
        /\ Len(calls[p].sent) = 2 /\ calls[p].failed = 2

\* the descriptor fetch of getMetricTypes failed, or its response could not be processed
FetchFailed(c) ==
    /\ Len(c.sent) > 0
    /\ c.pc = "done"
    /\ ~c.last.ok \/ ~ProcessDescriptors(c.last.val).ok

\* C3 as stated: getMetricTypes never raises; when the fetch (with its retry)
\* fails or the response cannot be processed it emits one 'ds-request-error'
\* event, returns an empty list and leaves the cache as it was.
C3_MetricTypesNeverRaises ==
    \A p \in Callers :
        IsDone(p, "getMetricTypes")
        => /\ calls[p].status = "returned"
           /\ FetchFailed(calls[p])
              => /\ Len(appEvents) = 1
                 /\ appEvents[1].name = "ds-request-error"
                 /\ calls[p].value = Arr(<<>>)
                 /\ metricTypes = calls[p].mt0

\* C4: testDatasource never raises; it completes with {status, message}, status
\* 'success' or 'error', message a string, and 'success' only when the GET
\* response has status 200.
C4_TestNeverRaises ==
    \A p \in Callers :
        IsDone(p, "testDatasource")
        => LET c == calls[p]
           IN /\ c.status = "returned"
              /\ c.value.t = "object"
              /\ DOMAIN c.value.v = {"status", "message"}
              /\ c.value.v.status \in {Str("success"), Str("error")}
              /\ IsString(c.value.v.message)
              /\ c.value.v.status = Str("success")
                 => /\ c.sent[Len(c.sent)].method = "GET"
                    /\ c.last.ok
                    /\ Prop(c.last.val, "status") = Num(200)

C4_Witness ==
    \E p \in Callers :
        /\ IsDone(p, "testDatasource")
        /\ calls[p].last = Throw(Undefined)
        /\ calls[p].sent[Len(calls[p].sent)].method = "GET"
        /\ calls[p].value.v.status = Str("error")

Hidden(target) == target.hide = Bool(TRUE) \/ target.metricType = Str("")

\* C5: when the target list is empty or every target is hidden or has an empty
\* metricType, query issues no network request and returns {data: []}.
C5_NothingToQuery ==
    \A p \in Callers :
        (IsCall(p, "query") /\ \A i \in 1..Len(calls[p].arg) : Hidden(calls[p].arg[i]))
        => /\ calls[p].sent = <<>>
           /\ Returned(p)
           /\ calls[p].value = Obj([data |-> Arr(<<>>)])

C5_Witness ==
    \E p \in Callers :
        /\ IsDone(p, "query")
        /\ Len(calls[p].arg) = MaxTargets
        /\ \A i \in 1..Len(calls[p].arg) : Hidden(calls[p].arg[i])
        /\ \E i \in 1..Len(calls[p].arg) : calls[p].arg[i].metricType # Str("")
        /\ calls[p].sent = <<>>

\* C6 as stated: after the first getMetricTypes call whose fetch succeeded,
\* every later getMetricTypes call issues no network request and returns the
\* list obtained by that fetch.
C6_CachedAfterFirstFetch ==
    \A p \in Callers :
        (IsCall(p, "getMetricTypes") /\ calls[p].after)
        => /\ calls[p].sent = <<>>
           /\ Returned(p)
           /\ calls[p].value = Arr(firstFetch[1])

\* C6 amended: once a fetch has stored a non-empty list, every getMetricTypes
\* call started afterwards (calls not overlapping) issues no network request
\* and returns that list, which stays in the cache; a first successful fetch
\* that returned a non-empty list is therefore the list returned ever after.
C6_CachedAfterNonEmptyFetch ==
    /\ \A p \in Callers :
          (IsCall(p, "getMetricTypes") /\ calls[p].mt0 # <<>>)
          => /\ calls[p].sent = <<>>
             /\ Returned(p)
             /\ calls[p].value = Arr(calls[p].mt0)
             /\ metricTypes = calls[p].mt0
    /\ (firstFetch # <<>> /\ firstFetch[1] # <<>>) => metricTypes = firstFetch[1]

C6_Witness ==
    \E p \in Callers :
        /\ IsDone(p, "getMetricTypes")
        /\ calls[p].after
        /\ calls[p].sent = <<>>
        /\ calls[p].value = Arr(firstFetch[1])
        /\ Len(firstFetch[1]) = 2
        /\ lastDone.op = "getMetricTypes"

\* C7 as stated: formatStackdriverError never raises, whatever the error value;
\* it returns a string starting with 'Stackdriver: ', appends the raw
\* data.error when that cannot be parsed, and returns exactly 'Stackdriver:
\* Cannot connect to Stackdriver API' when neither statusText nor data.error
\* is present.
C7_FormatNeverRaises ==
    \A p \in Callers :
        IsDone(p, "formatStackdriverError")
        => LET error == calls[p].arg
               statusText == Prop(error, "statusText")
               raw == Prop(Prop(error, "data"), "error")
           IN /\ calls[p].status = "returned"
              /\ IsString(calls[p].value)
              /\ Slice(calls[p].value.v, 1, 13) = "Stackdriver: "
              /\ (~Truthy(statusText) /\ ~Truthy(raw))
                 => calls[p].value = Str("Stackdriver: Cannot connect to Stackdriver API")
              /\ (~Truthy(statusText) /\ Truthy(raw) /\ ~JSONParse(ToJSString(raw)).ok)
                 => calls[p].value = Str("Stackdriver: " \o ToJSString(raw))

SameUnit(targets) == \A i, j \in 1..Len(targets) : targets[i].unit = targets[j].unit

\* C8: query resolves one unit for the whole batch from the original target
\* list: when all targets have the same unit and the unit table maps it, every
\* output series carries the mapped unit; otherwise no output series has a unit.
C8_BatchUnit ==
    \A p \in Callers :
        (IsDone(p, "query") /\ Returned(p))
        => LET targets == calls[p].arg
               series == calls[p].value.v.data.v
           IN IF /\ Len(targets) > 0
                 /\ SameUnit(targets)
                 /\ targets[1].unit \in {Str(u) : u \in DOMAIN stackdriverUnitMappings}
              THEN \A i \in 1..Len(series) :
                      /\ "unit" \in DOMAIN series[i].v
                      /\ series[i].v.unit = Str(stackdriverUnitMappings[targets[1].unit.v])
              ELSE \A i \in 1..Len(series) : "unit" \notin DOMAIN series[i].v

C8_Witness ==
    \E p \in Callers :
        /\ IsDone(p, "query") /\ Returned(p)
        /\ Len(calls[p].arg) = 2
        /\ calls[p].arg[1].hide = Bool(TRUE)
        /\ calls[p].arg[1].unit = Str("bytes") /\ calls[p].arg[2].unit = Str("bytes")
        /\ Len(calls[p].value.v.data.v) = 2
        /\ \A i \in 1..2 : calls[p].value.v.data.v[i].v.unit = Str("decbytes")

\* the position in the target list of the k-th target that is neither hidden
\* nor without a metricType
Shown(targets) == {i \in 1..Len(targets) : ~Hidden(targets[i])}
ShownAt(targets, k) ==
    CHOOSE i \in Shown(targets) : Cardinality({j \in Shown(targets) : j < i}) = k - 1

\* C9: for a target list with at least one target that is not hidden and has a
\* metricType, getTimeSeries issues a single request whose batch holds exactly
\* one descriptor per such target, in the targets' order and with the target's
\* refId, and none for any other target.
C9_OneDescriptorPerTarget ==
    \A p \in Callers :
        (IsCall(p, "query") /\ Shown(calls[p].arg) # {})
        => LET targets == calls[p].arg
           IN /\ Len(calls[p].sent) = 1
              /\ calls[p].sent[1].method = "POST"
              /\ Len(calls[p].sent[1].queries) = Cardinality(Shown(targets))
              /\ \A k \in 1..Len(calls[p].sent[1].queries) :
                    calls[p].sent[1].queries[k].refId = targets[ShownAt(targets, k)].refId

C9_Witness ==
    \E p \in Callers :
        /\ IsCall(p, "query")
        /\ calls[p].pc = "await_query"
        /\ Len(calls[p].arg) = MaxTargets
        /\ Hidden(calls[p].arg[1])
        /\ Len(calls[p].sent[1].queries) = MaxTargets - 1

\* C10 as stated: over any interleaving of getMetricTypes and getDefaultProject
\* calls, the metric-descriptor cache and the default project are each
\* assigned at most once.
C10_AssignedAtMostOnce == mtWrites <= 1 /\ pnWrites <= 1

FetchInFlight ==
    \E p \in Callers : calls[p].op = "getMetricTypes" /\ calls[p].pc = "await_get"
ResolutionInFlight ==
    \E p \in Callers : calls[p].pc = "await_post"

CacheSettled == metricTypes # <<>> /\ ~FetchInFlight
ProjectSettled == authenticationType # "gce" /\ Truthy(projectName) /\ ~ResolutionInFlight

\* C10 amended: once the cache holds a non-empty list and no getMetricTypes
\* fetch is in flight, the cache is never assigned again; once the project is
\* non-empty, the authentication type is not 'gce' and no resolution request is
\* in flight, the project is never assigned again.
C10_SettledNeverReassigned ==
    [][/\ CacheSettled
          => CacheSettled' /\ metricTypes' = metricTypes /\ mtWrites' = mtWrites
       /\ ProjectSettled
          => ProjectSettled' /\ projectName' = projectName /\ pnWrites' = pnWrites]_vars

C10_Witness ==
    /\ CacheSettled /\ ProjectSettled
    /\ mtWrites = 1 /\ pnWrites = 1
    /\ \E p \in Callers : IsDone(p, "getMetricTypes") /\ calls[p].sent = <<>>

====
